---- MODULE Spec2Model ----
(***************************************************************************)
(* State-machine model of the FetchBrain SDK's coordination layer:         *)
(*   - RequestBatcher  (src/src/batch.ts)                                  *)
(*   - CircuitBreaker  (src/unnamed/part_004, circuit-breaker.ts)          *)
(*   - FetchBrainClient (src/unnamed/part_003, client.ts)                  *)
(* Every setTimeout is a record in `timers` with the delay it has left;    *)
(* timers fire in arming order, as Node does for timers of equal delay.    *)
(* Date.now() is the clock `now`.                                          *)
(***************************************************************************)
EXTENDS Integers, Sequences, FiniteSets, TLC

\* ---------------------------------------------------------------- bounds
MaxReq == 5          \* query(url) calls made on one batcher (scheduling runs)
MaxDataReq == 2      \* query(url) calls made on one batcher (result-data runs)
MaxBatch == 3        \* largest configured maxSize
maxWait == 2         \* configured maxWait, in clock ticks
MaxTime == 5         \* last instant of the clock
MaxFailures == 4     \* cap on the breaker's unbounded failures counter
MaxThreshold == 3    \* largest configured failureThreshold
MaxSuccThreshold == 2 \* largest configured successThreshold
MaxReset == 2        \* largest configured resetTimeout (clock ticks)
MaxAsk == 4          \* method calls made on one FetchBrainClient
MaxClientTime == 3   \* clock ticks in the runs of a client
MaxPush == 2         \* pushData and useAIData calls the handlers make
MaxMockCalls == 4    \* method calls made on one MockFetchBrain
MaxOrderReq == 4     \* query(url) calls made on one batcher (ordering and settlement runs)
MaxLiveReq == 3      \* query(url) calls made on one batcher (liveness runs)

\* --------------------------------------------------------------- carriers
URLs == {"u1", "u2"}
Errors == {"e1", "e2"}
NoVal == [known |-> FALSE, data |-> "none", fallback |-> FALSE]   \* {known:false}
Fallback == [known |-> FALSE, data |-> "none", fallback |-> TRUE] \* {known:false, fallback:true}
KnownVal == [known |-> TRUE, data |-> "d1", fallback |-> FALSE]
\* stands for "the Map has no entry for this URL" (results.get(url) is undefined)
Missing == [known |-> FALSE, data |-> "undefined", fallback |-> FALSE]
NoError == "none"
EmptyMap == [u \in URLs |-> Missing]
\* what an executor's Map may hold for one URL
MapValues == {Missing, NoVal, KnownVal}
ResultMaps == [URLs -> MapValues]

VARIABLES
  \* RequestBatcher
  maxSize,        \* config.maxSize
  queue,          \* this.queue: sequence of request ids, oldest first
  flushTimeout,   \* this.flushTimeout: a timer id, or 0 for null
  timers,         \* the event loop's pending setTimeout callbacks, in arming order
  calls,          \* the executor's invocations, in order, with their outcome
  reqs,           \* one entry per query(url) call: its url and its promise
  window,         \* the arrivals of the current maxWait window and the time it has left
  now,            \* the clock
  \* CircuitBreaker
  cfg,            \* config: failureThreshold, resetTimeout, successThreshold
  state, failures, successes, lastFailureTime,
  ret,            \* what the last isOpen() call returned
  op,             \* the last thing that happened to the breaker: a method call or a clock tick
  streak,         \* the recordFailure() calls since construction, reset() or recordSuccess()
  before,         \* this.state as it was when the last method call began
  \* FetchBrainClient
  learning,       \* config.learning
  made,           \* the number of query/queryBulk/learn/stats calls made so far
  answers,        \* answers[r]: the promise of the client.query call that made batcher request r
  sent,           \* the requests queryBulk, learn and stats have sent and still await
  lastAsk,        \* the last call that returned without the batcher: what it returned
  \* FetchBrain.enhance
  alwaysRun,      \* config.alwaysRun
  telemetry,      \* config.telemetry?.enabled
  backend,        \* "up", or "down" when every backend call fails
  instOf,         \* the enhanced crawler (instance) each request is given to
  rq,             \* one record per request: where its wrapped handler stands, what it did
  currentContext, \* the module-level scrape context of client.ts
  requestContextMap, \* the module-level WeakMap from context object to url
  \* MockFetchBrain
  mock,           \* this.knowledge, this._stats and options.simulateFailures
  taught          \* per URL, the data last taught (learn, seed, initial knowledge): ever, and since clear()

bvars == <<maxSize, queue, flushTimeout, timers, calls, reqs, window>>
cvars == <<cfg, state, failures, successes, lastFailureTime, ret, op, streak, before>>
vars == <<maxSize, queue, flushTimeout, timers, calls, reqs, window, now,
          cfg, state, failures, successes, lastFailureTime, ret, op, streak, before,
          learning, made, answers, sent, lastAsk,
          alwaysRun, telemetry, backend, instOf, rq, currentContext, requestContextMap,
          mock, taught>>
kvars == <<learning, made, answers, sent, lastAsk>>
wvars == <<alwaysRun, telemetry, backend, instOf, rq, currentContext, requestContextMap>>
mvars == <<mock, taught>>

Min(a, b) == IF a < b THEN a ELSE b
Range(s) == {s[i] : i \in 1..Len(s)}
SelectIds(s, id) == SelectSeq(s, LAMBDA t : t.id # id)

\* ============================================================ RequestBatcher

Pending == [st |-> "pending", val |-> NoVal, err |-> NoError]
Resolved(v) == [st |-> "resolved", val |-> v, err |-> NoError]
Rejected(e) == [st |-> "rejected", val |-> NoVal, err |-> e]

\* setTimeout(cb, maxWait): a fresh timer, due maxWait from now, behind the others
TimerIds == 1..(2 * MaxReq + 2)
FreshTimer(tms) == CHOOSE i \in TimerIds :
                     /\ i \notin {t.id : t \in Range(tms)}
                     /\ \A j \in 1..(i-1) : j \in {t.id : t \in Range(tms)}
setTimeoutBug(tms) == tms
setTimeout(tms) == Append(tms, [id |-> FreshTimer(tms), left |-> maxWait])

\* clearTimeout(id): no effect when the timer has fired or id is null
clearTimeout(tms, id) == SelectIds(tms, id)

\* queue.splice(0, maxSize): the removed front, and what stays in the queue
SpliceRestBug(q) == q
SpliceRest(q) == SubSeq(q, Min(Len(q), maxSize) + 1, Len(q))
SpliceTaken(q) == SubSeq(q, 1, Min(Len(q), maxSize))

\* batch.map(r => r.url)
UrlsOf(batch, rs) == [i \in 1..Len(batch) |-> rs[batch[i]].url]

\* results.get(url), {known:false} when absent
ResultForBug(m, batch, i, rs) == IF m[rs[batch[1]].url] = Missing THEN NoVal
                                 ELSE m[rs[batch[1]].url]
ResultFor(m, batch, i, rs) == IF m[rs[batch[i]].url] = Missing THEN NoVal
                              ELSE m[rs[batch[i]].url]

\* flush() up to its await: cancel the timer, take the batch, call the executor.
\* q, tms, rs are the queue, timers and requests as the caller left them.
flush(q, tms, rs, by) ==
  /\ flushTimeout' = 0
  /\ timers' = clearTimeout(tms, flushTimeout)
  /\ IF Len(q) = 0
       THEN /\ queue' = q
            /\ calls' = calls
       ELSE /\ queue' = SpliceRest(q)
            /\ calls' = Append(calls, [batch |-> SpliceTaken(q),
                                       urls |-> UrlsOf(SpliceTaken(q), rs),
                                       by |-> by,
                                       st |-> "pending", res |-> EmptyMap, err |-> NoError])

\* the maxWait window a query arrives in: the one still running, or a new one
\* when the query is the first unflushed item
Arrive(w, q, id) ==
  IF w.left > 0 THEN [w EXCEPT !.members = Append(@, id)]
  ELSE IF q = <<>> THEN [members |-> <<id>>, left |-> maxWait, late |-> FALSE]
  ELSE [w EXCEPT !.late = TRUE]

\* query(url)
query(u) ==
  /\ LET id == Len(reqs) + 1
         rs == Append(reqs, [url |-> u, out |-> Pending])
         q == Append(queue, id)
     IN /\ reqs' = rs
        /\ window' = Arrive(window, queue, id)
        /\ IF Len(q) >= maxSize
             THEN flush(q, timers, rs, "size")
             ELSE /\ queue' = q
                  /\ calls' = calls
                  /\ IF flushTimeout = 0
                       THEN /\ timers' = setTimeout(timers)
                            /\ flushTimeout' = FreshTimer(timers)
                       ELSE UNCHANGED <<timers, flushTimeout>>
  /\ UNCHANGED <<maxSize, now>>

\* the setTimeout callback of query() or of flush(): () => this.flush()
TimerFires ==
  /\ timers # <<>>
  /\ Head(timers).left = 0
  /\ flush(queue, Tail(timers), reqs, "timer")
  /\ UNCHANGED <<maxSize, reqs, window, now>>

\* the re-schedule at the end of flush()
Reschedule ==
  IF Len(queue) > 0
    THEN /\ timers' = setTimeout(timers)
         /\ flushTimeout' = FreshTimer(timers)
    ELSE UNCHANGED <<timers, flushTimeout>>

\* flush() after its await, the executor's promise fulfilled with the Map m
SettleOkBug(c, m, rs) ==
  [r \in 1..Len(rs) |->
     IF rs[r].out = Pending THEN [rs[r] EXCEPT !.out = Resolved(NoVal)] ELSE rs[r]]
SettleOk(c, m, rs) ==
  [r \in 1..Len(rs) |->
     IF \E i \in 1..Len(calls[c].batch) : calls[c].batch[i] = r
       THEN [rs[r] EXCEPT !.out =
               Resolved(ResultFor(m, calls[c].batch,
                    CHOOSE i \in 1..Len(calls[c].batch) : calls[c].batch[i] = r, rs))]
       ELSE rs[r]]

ExecutorResolves(c, m) ==
  /\ calls[c].st = "pending"
  /\ calls' = [calls EXCEPT ![c].st = "ok", ![c].res = m]
  /\ reqs' = SettleOk(c, m, reqs)
  /\ Reschedule
  /\ UNCHANGED <<maxSize, queue, window, now>>

\* flush() after its await, the executor's promise rejected with the error e
SettleErrBug(c, e, rs) ==
  [r \in 1..Len(rs) |->
     IF calls[c].batch[1] = r THEN [rs[r] EXCEPT !.out = Rejected(e)] ELSE rs[r]]
SettleErr(c, e, rs) ==
  [r \in 1..Len(rs) |->
     IF r \in Range(calls[c].batch) THEN [rs[r] EXCEPT !.out = Rejected(e)] ELSE rs[r]]

ExecutorRejects(c, e) ==
  /\ calls[c].st = "pending"
  /\ calls' = [calls EXCEPT ![c].st = "error", ![c].err = e]
  /\ reqs' = SettleErr(c, e, reqs)
  /\ Reschedule
  /\ UNCHANGED <<maxSize, queue, window, now>>

\* clear()
ClearSettleBug(q, rs) ==
  [r \in 1..Len(rs) |->
     IF rs[r].out = Pending THEN [rs[r] EXCEPT !.out = Resolved(Fallback)] ELSE rs[r]]
ClearSettle(q, rs) ==
  [r \in 1..Len(rs) |->
     IF r \in Range(q) THEN [rs[r] EXCEPT !.out = Resolved(Fallback)] ELSE rs[r]]

clear ==
  /\ timers' = clearTimeout(timers, flushTimeout)
  /\ flushTimeout' = 0
  /\ reqs' = ClearSettle(queue, reqs)
  /\ queue' = <<>>
  /\ UNCHANGED <<maxSize, calls, window, now>>

\* one clock tick on the event loop; a due timer fires before time moves on
TimePasses ==
  /\ IF timers = <<>> THEN TRUE ELSE Head(timers).left > 0
  /\ timers' = [i \in 1..Len(timers) |-> [timers[i] EXCEPT !.left = @ - 1]]
  /\ window' = [window EXCEPT !.left = IF @ > 0 THEN @ - 1 ELSE 0]
  /\ UNCHANGED <<maxSize, queue, flushTimeout, calls, reqs>>

BatcherInit(sizes) ==
  /\ maxSize \in sizes
  /\ queue = <<>>
  /\ flushTimeout = 0
  /\ timers = <<>>
  /\ calls = <<>>
  /\ reqs = <<>>
  /\ window = [members |-> <<>>, left |-> 0, late |-> FALSE]

\* ============================================================ CircuitBreaker

\* resetTimeout is counted in clock ticks
DEFAULT_CONFIG == [failureThreshold |-> 3, resetTimeout |-> MaxReset, successThreshold |-> 1]
Configs == [failureThreshold : 1..MaxThreshold,
            resetTimeout : 1..MaxReset,
            successThreshold : 1..MaxSuccThreshold]

\* Date.now() at construction: later than any resetTimeout after time 0
StartTime == MaxReset + 1

BreakerInit(cfgs) ==
  /\ cfg \in cfgs
  /\ state = "closed"
  /\ failures = 0
  /\ successes = 0
  /\ lastFailureTime = 0
  /\ ret = FALSE
  /\ op = "new"
  /\ streak = [n |-> 0, fromClosed |-> TRUE, forgave |-> 0]
  /\ before = "closed"

\* now - this.lastFailureTime >= this.config.resetTimeout
ResetElapsedBug(t, last) == t - last > cfg.resetTimeout
ResetElapsed(t, last) == t - last >= cfg.resetTimeout

\* what isOpen() returns in the current state
isOpenReturn ==
  IF state = "closed" THEN FALSE
  ELSE IF state = "open" THEN ~ResetElapsed(now, lastFailureTime)
  ELSE FALSE

\* this.successes = 0 on the way from open to half-open
HalfOpenSuccessesBug(k) == k
HalfOpenSuccesses(k) == 0

\* isOpen()
isOpen ==
  /\ ret' = isOpenReturn
  /\ IF state = "open" /\ ResetElapsed(now, lastFailureTime)
       THEN /\ state' = "half-open"
            /\ successes' = HalfOpenSuccesses(successes)
       ELSE UNCHANGED <<state, successes>>
  /\ op' = "isOpen"
  /\ before' = state
  /\ UNCHANGED <<cfg, failures, lastFailureTime, streak, now>>

\* reset()
resetBug ==
  /\ state' = "closed"
  /\ failures' = failures
  /\ successes' = 0
  /\ lastFailureTime' = 0
  /\ op' = "reset"
  /\ before' = state
  /\ streak' = [n |-> 0, fromClosed |-> TRUE, forgave |-> 0]
  /\ UNCHANGED <<cfg, ret, now>>
reset ==
  /\ state' = "closed"
  /\ failures' = 0
  /\ successes' = 0
  /\ lastFailureTime' = 0
  /\ op' = "reset"
  /\ before' = state
  /\ streak' = [n |-> 0, fromClosed |-> TRUE, forgave |-> 0]
  /\ UNCHANGED <<cfg, ret, now>>

\* this.successes >= this.config.successThreshold
SuccessesReachedBug(k) == k > cfg.successThreshold
SuccessesReached(k) == k >= cfg.successThreshold

\* this.failures after recordSuccess() in the closed state
ClosedSuccessFailuresBug(f) == f
ClosedSuccessFailures(f) == 0

\* recordSuccess()
recordSuccess ==
  /\ IF state = "half-open"
       THEN IF SuccessesReached(successes + 1)
              THEN /\ state' = "closed"
                   /\ failures' = 0
                   /\ successes' = 0
                   /\ lastFailureTime' = 0
              ELSE /\ successes' = successes + 1
                   /\ UNCHANGED <<state, failures, lastFailureTime>>
       ELSE IF state = "closed"
              THEN /\ failures' = ClosedSuccessFailures(failures)
                   /\ UNCHANGED <<state, successes, lastFailureTime>>
              ELSE UNCHANGED <<state, failures, successes, lastFailureTime>>
  /\ op' = "recordSuccess"
  /\ before' = state
  /\ streak' = [n |-> 0,
                fromClosed |-> (state' = "closed" /\ failures' = 0),
                forgave |-> IF state = "closed" THEN streak.n ELSE 0]
  /\ UNCHANGED <<cfg, ret, now>>

\* this.failures >= this.config.failureThreshold
FailuresReachedBug(f) == f > cfg.failureThreshold
FailuresReached(f) == f >= cfg.failureThreshold

\* recordFailure()
recordFailure ==
  /\ failures' = failures + 1
  /\ lastFailureTime' = now
  /\ IF state = "half-open"
       THEN state' = "open"
       ELSE IF FailuresReached(failures + 1)
              THEN state' = "open"
              ELSE UNCHANGED state
  /\ op' = "recordFailure"
  /\ before' = state
  /\ streak' = [streak EXCEPT !.n = @ + 1]
  /\ UNCHANGED <<cfg, successes, ret, now>>

\* Date.now() moves on
ClockAdvance ==
  /\ now' = now + 1
  /\ op' = "tick"
  /\ UNCHANGED <<cfg, state, failures, successes, lastFailureTime, ret, streak, before>>

BreakerNext ==
  \/ isOpen /\ UNCHANGED <<bvars, kvars, wvars, mvars>>
  \/ recordSuccess /\ UNCHANGED <<bvars, kvars, wvars, mvars>>
  \/ failures < MaxFailures /\ recordFailure /\ UNCHANGED <<bvars, kvars, wvars, mvars>>
  \/ reset /\ UNCHANGED <<bvars, kvars, wvars, mvars>>
  \/ now < StartTime + MaxTime /\ ClockAdvance /\ UNCHANGED <<bvars, kvars, wvars, mvars>>

\* scheduling runs: the k-th query asks for u1, u2, u1, ...; the executor
\* answers "unknown" for every URL or fails with e1
AlternateUrl(k) == {IF k % 2 = 1 THEN "u1" ELSE "u2"}
UnknownMap == [u \in URLs |-> NoVal]

\* ========================================================== FetchBrainClient
\* The client owns one breaker (default config) and one batcher whose
\* executor is executeBatchQuery. A backend request is either an executor
\* call of the batcher (an entry of `calls`) or a request a method sent itself
\* (an entry of `asks` with sent = TRUE).

\* the backend's answers: QueryResponse {known: [...], unknown: [...]},
\* LearnResponse, StatsResponse
QueryResponses == {[known |-> {"u1"}, unknown |-> {"u2"}],
                   [known |-> {"u2"}, unknown |-> {}]}
LearnResponses == {[status |-> "accepted", learned |-> 1]}
StatsResponses == {[queries |-> 1, recognized |-> 0]}
ResponsesFor(o) == IF o = "queryBulk" THEN QueryResponses
                   ELSE IF o = "learn" THEN LearnResponses
                   ELSE StatsResponses
\* the url lists queryBulk is called with
BulkInputs == {<<"u1">>, <<"u2", "u1">>}

RejectedLearn == [status |-> "rejected", learned |-> 0]
Null == [null |-> TRUE]

NoAsk == [op |-> "none", urls |-> <<>>, sent |-> FALSE, out |-> Pending]
Ask(o, us, snt, out) == [op |-> o, urls |-> us, sent |-> snt, out |-> out]

ClientInit(ls) ==
  /\ learning \in ls
  /\ made = 0
  /\ answers = <<>>
  /\ sent = <<>>
  /\ lastAsk = NoAsk

RemoveAt(q, i) == SubSeq(q, 1, i - 1) \o SubSeq(q, i + 1, Len(q))

\* new Map(urls.map((url) => [url, { known: false, fallback: true }]))
FallbackMapBug(us) == [u \in URLs |-> IF us # <<>> /\ u = us[1] THEN Fallback ELSE Missing]
FallbackMap(us) == [u \in URLs |-> IF u \in Range(us) THEN Fallback ELSE Missing]

\* the Map executeBatchQuery builds from a QueryResponse: the known items
\* first, then the unknown urls
QueryResultsBug(resp) ==
  [u \in URLs |-> IF u \in resp.unknown THEN NoVal
                  ELSE IF u \in resp.known THEN [KnownVal EXCEPT !.fallback = TRUE]
                  ELSE Missing]
QueryResults(resp) ==
  [u \in URLs |-> IF u \in resp.unknown THEN NoVal
                  ELSE IF u \in resp.known THEN KnownVal
                  ELSE Missing]

\* query(): try { return await this.batcher.query(url) } catch { fallback }
CaughtBug(o) == o
Caught(o) == IF o.st = "rejected" THEN Resolved(Fallback) ELSE o

\* the continuations of query() run when the batcher settles its promises
SettleAnswers(ans, rs) ==
  [r \in 1..Len(ans) |-> IF ans[r] = Pending THEN Caught(rs[r].out) ELSE ans[r]]

\* client.query(url)
Client_query(u) ==
  /\ isOpen
  /\ IF isOpenReturn
       THEN /\ lastAsk' = Ask("query", <<u>>, FALSE, Resolved(Fallback))
            /\ UNCHANGED <<bvars, answers>>
       ELSE /\ query(u)
            /\ answers' = Append(answers, Pending)
            /\ UNCHANGED lastAsk
  /\ made' = made + 1
  /\ UNCHANGED <<learning, sent>>

\* client.queryBulk(urls), up to the await of executeBatchQuery
Client_queryBulk(us) ==
  /\ isOpen
  /\ IF isOpenReturn
       THEN /\ lastAsk' = Ask("queryBulk", us, FALSE, Resolved(FallbackMap(us)))
            /\ UNCHANGED sent
       ELSE /\ sent' = Append(sent, [op |-> "queryBulk", urls |-> us])
            /\ UNCHANGED lastAsk
  /\ made' = made + 1
  /\ UNCHANGED <<bvars, learning, answers>>

\* !this.config.learning
LearningDisabledBug == FALSE
LearningDisabled == ~learning

\* client.learn(url, data), up to the await of makeRequest
Client_learn(u) ==
  /\ IF LearningDisabled
       THEN /\ lastAsk' = Ask("learn", <<u>>, FALSE, Resolved(RejectedLearn))
            /\ UNCHANGED <<cvars, now, sent>>
       ELSE /\ isOpen
            /\ IF isOpenReturn
                 THEN /\ lastAsk' = Ask("learn", <<u>>, FALSE, Resolved(RejectedLearn))
                      /\ UNCHANGED sent
                 ELSE /\ sent' = Append(sent, [op |-> "learn", urls |-> <<u>>])
                      /\ UNCHANGED lastAsk
  /\ made' = made + 1
  /\ UNCHANGED <<bvars, learning, answers>>

\* client.stats(), up to the await of makeRequest
Client_stats ==
  /\ isOpen
  /\ IF isOpenReturn
       THEN /\ lastAsk' = Ask("stats", <<>>, FALSE, Resolved(Null))
            /\ UNCHANGED sent
       ELSE /\ sent' = Append(sent, [op |-> "stats", urls |-> <<>>])
            /\ UNCHANGED lastAsk
  /\ made' = made + 1
  /\ UNCHANGED <<bvars, learning, answers>>

\* what a method returns when its own request succeeded
Returned(o, resp) == IF o = "queryBulk" THEN QueryResults(resp) ELSE resp

\* what a method returns from its catch block
LearnCatchBug(e) == Rejected(e)
LearnCatch(e) == Resolved(RejectedLearn)
CatchOf(a, e) ==
  IF a.op = "queryBulk" THEN Resolved(FallbackMap(a.urls))
  ELSE IF a.op = "learn" THEN LearnCatch(e)
  ELSE Resolved(Null)

\* executeBatchQuery's catch block: this.circuitBreaker.recordFailure(); throw error
BatchFailureSignalBug == UNCHANGED <<cvars, now>>
BatchFailureSignal == recordFailure

\* the request sent by a queryBulk, learn or stats call comes back
RequestResolves(i, resp) ==
  /\ recordSuccess
  /\ lastAsk' = Ask(sent[i].op, sent[i].urls, TRUE, Resolved(Returned(sent[i].op, resp)))
  /\ sent' = RemoveAt(sent, i)
  /\ UNCHANGED <<bvars, learning, made, answers>>

\* the request sent by a queryBulk, learn or stats call fails
RequestRejects(i, e) ==
  /\ IF sent[i].op = "queryBulk" THEN BatchFailureSignal ELSE recordFailure
  /\ lastAsk' = Ask(sent[i].op, sent[i].urls, TRUE, CatchOf(sent[i], e))
  /\ sent' = RemoveAt(sent, i)
  /\ UNCHANGED <<bvars, learning, made, answers>>

\* executeBatchQuery, called by the batcher's flush, gets its response
BatchQueryResolves(c, resp) ==
  /\ recordSuccess
  /\ ExecutorResolves(c, QueryResults(resp))
  /\ answers' = SettleAnswers(answers, reqs')
  /\ UNCHANGED <<learning, made, sent, lastAsk>>

\* executeBatchQuery, called by the batcher's flush, fails
BatchQueryRejects(c, e) ==
  /\ BatchFailureSignal
  /\ ExecutorRejects(c, e)
  /\ answers' = SettleAnswers(answers, reqs')
  /\ UNCHANGED <<learning, made, sent, lastAsk>>

\* the flush timer fires: flush() calls executeBatchQuery
Client_TimerFires ==
  /\ TimerFires
  /\ UNCHANGED <<cvars, now, kvars>>

\* client.clearBatch()
clearBatch ==
  /\ clear
  /\ answers' = SettleAnswers(answers, reqs')
  /\ UNCHANGED <<cvars, learning, made, sent, lastAsk>>

\* one clock tick: the timers and Date.now() move together
Tick ==
  /\ TimePasses
  /\ now' = now + 1
  /\ UNCHANGED <<cvars, kvars>>

\* ============================================================ MockFetchBrain
\* The in-process mock of the knowledge service. this.knowledge maps a URL to
\* the data it holds, "none" when the Map has no entry.

MockData == {"d1", "d2"}
\* confidence of a recognised URL, in hundredths
MockConfidence == 97
\* the result has no confidence field
NoConfidence == 0
NoKnowledge == [u \in URLs |-> "none"]
\* options.initialKnowledge
InitialKnowledge == {NoKnowledge, [u \in URLs |-> IF u = "u1" THEN "d1" ELSE "none"]}
NoStats == [queries |-> 0, recognized |-> 0, learned |-> 0]
MockError == "Simulated API failure"
Accepted == [status |-> "accepted", learned |-> 1]

MockIdle ==
  /\ mock = [knowledge |-> NoKnowledge, stats |-> NoStats, simulateFailures |-> FALSE]
  /\ taught = [ever |-> NoKnowledge, live |-> NoKnowledge]

\* new MockFetchBrain(options)
MockInit ==
  /\ \E k \in InitialKnowledge, f \in BOOLEAN :
       /\ mock = [knowledge |-> k, stats |-> NoStats, simulateFailures |-> f]
       /\ taught = [ever |-> k, live |-> k]

\* shouldFail(): Math.random() < failureRate, only with simulateFailures
MayFail == IF mock.simulateFailures THEN BOOLEAN ELSE {FALSE}

\* this.knowledge.set(url, {data, learnedAt})
KnowledgeSetBug(k, u, d) == IF k[u] = "none" THEN [k EXCEPT ![u] = d] ELSE k
KnowledgeSet(k, u, d) == [k EXCEPT ![u] = d]

\* what query(url) returns for the entry this.knowledge.get(url)
MockResult(e) ==
  IF e # "none"
    THEN [known |-> TRUE, data |-> e, confidence |-> MockConfidence]
    ELSE [known |-> FALSE, data |-> "none", confidence |-> NoConfidence]

\* the _stats after the queries of the URLs us
Counted(st, k, us) ==
  [st EXCEPT !.queries = @ + Len(us),
             !.recognized = @ + Cardinality({i \in 1..Len(us) : k[us[i]] # "none"})]

\* a method call on the mock returns or throws
MockReturns(o, us, out) ==
  /\ made' = made + 1
  /\ lastAsk' = Ask(o, us, FALSE, out)
  /\ UNCHANGED <<learning, answers, sent>>

\* MockFetchBrain.query(url)
Mock_query(u) ==
  \E fail \in MayFail :
    IF fail
      THEN MockReturns("query", <<u>>, Rejected(MockError)) /\ UNCHANGED mvars
      ELSE /\ mock' = [mock EXCEPT !.stats = Counted(@, mock.knowledge, <<u>>)]
           /\ MockReturns("query", <<u>>, Resolved(MockResult(mock.knowledge[u])))
           /\ UNCHANGED taught

\* MockFetchBrain.queryBulk(urls): query(url) for each url in turn; the first
\* k queries are answered and, with failures simulated, the next may throw
Mock_queryBulk(us) ==
  \E k \in 0..Len(us) :
    /\ k < Len(us) => mock.simulateFailures
    /\ mock' = [mock EXCEPT !.stats = Counted(@, mock.knowledge, SubSeq(us, 1, k))]
    /\ MockReturns("queryBulk", us,
                   IF k < Len(us) THEN Rejected(MockError)
                   ELSE Resolved([u \in Range(us) |-> MockResult(mock.knowledge[u])]))
    /\ UNCHANGED taught

\* MockFetchBrain.learn(url, data)
Mock_learn(u, d) ==
  \E fail \in MayFail :
    IF fail
      THEN MockReturns("learn", <<u>>, Rejected(MockError)) /\ UNCHANGED mvars
      ELSE /\ mock' = [mock EXCEPT !.knowledge = KnowledgeSet(@, u, d), !.stats.learned = @ + 1]
           /\ taught' = [ever |-> [taught.ever EXCEPT ![u] = d],
                         live |-> [taught.live EXCEPT ![u] = d]]
           /\ MockReturns("learn", <<u>>, Resolved(Accepted))

\* MockFetchBrain.stats()
Mock_stats ==
  /\ MockReturns("stats", <<>>, Resolved(mock.stats))
  /\ UNCHANGED mvars

\* MockFetchBrain.seed([{url, data}])
Mock_seed(u, d) ==
  /\ mock' = [mock EXCEPT !.knowledge = KnowledgeSet(@, u, d)]
  /\ taught' = [ever |-> [taught.ever EXCEPT ![u] = d],
                live |-> [taught.live EXCEPT ![u] = d]]
  /\ MockReturns("seed", <<u>>, Resolved(Null))

\* MockFetchBrain.clear()
Mock_clear ==
  /\ mock' = [mock EXCEPT !.knowledge = NoKnowledge, !.stats = NoStats]
  /\ taught' = [taught EXCEPT !.live = NoKnowledge]
  /\ MockReturns("clear", <<>>, Resolved(Null))

\* ========================================================== FetchBrain.enhance
\* The wrapped request handler of an enhanced crawler, and the pushData
\* wrapper. Each request has its own context object; the client is seen
\* through what client.query and client.learn settle with.

Requests == {"A", "B"}
\* request.url
UrlOf(r) == IF r = "A" THEN "u1" ELSE "u2"
\* request.label, "" when the request has none
NoLabel == ""
Labels == {NoLabel, "listing"}
\* config.alwaysRun: undefined, false, true, "listing", ["detail", "default"]
AlwaysRunValues ==
  {[kind |-> "undefined", flag |-> FALSE, labels |-> {}],
   [kind |-> "boolean", flag |-> FALSE, labels |-> {}],
   [kind |-> "boolean", flag |-> TRUE, labels |-> {}],
   [kind |-> "string", flag |-> FALSE, labels |-> {"listing"}],
   [kind |-> "array", flag |-> FALSE, labels |-> {"detail", "default"}]}
\* what the original handler throws
HandlerErrors == {"h1", "h2"}
\* what collectTelemetry / telemetryBuffer.add do
TelemetryOutcomes == {"ok", "throws"}
\* the item a handler pushes as its n-th
ItemOf(n) == <<"i1", "i2", "i3", "i4">>[n]

\* a known result without data (QueryResultItem.data is optional)
KnownNoData == [known |-> TRUE, data |-> "none", fallback |-> FALSE]
\* aiResult.data is truthy
HasData(v) == v.data # "none"

\* what batcher.query(url) settles with
BatcherOutcomes(b) ==
  {Rejected(e) : e \in Errors} \cup {Resolved(Fallback)}
  \cup (IF b = "up" THEN {Resolved(v) : v \in {NoVal, KnownVal, KnownNoData}} ELSE {})
\* what client.query(url) settles with: the fallback of an open circuit, or
\* what the batcher settled with, seen through query's try/catch
ClientQueryOutcomesBug(b) == {Resolved(Fallback)} \cup BatcherOutcomes(b)
ClientQueryOutcomes(b) == {Resolved(Fallback)} \cup {Caught(o) : o \in BatcherOutcomes(b)}
\* what client.learn(url, data) settles with
ClientLearnOutcomes(b) ==
  {Resolved(RejectedLearn)} \cup {LearnCatch(e) : e \in Errors}
  \cup (IF b = "up" THEN {Resolved(resp) : resp \in LearnResponses} ELSE {})

EmptyContext == [inst |-> 0, label |-> NoLabel, url |-> "none"]
NoStore == [set |-> FALSE, url |-> "none", learning |-> FALSE, aiKnown |-> FALSE]
NoPush == [via |-> "none", item |-> "none"]
NewRequest ==
  [st |-> "new", label |-> NoLabel, ai |-> NoVal, ran |-> 0, usedAIData |-> FALSE,
   intercepted |-> FALSE, store |-> NoStore, push |-> NoPush, pushes |-> 0,
   learned |-> <<>>, sink |-> <<>>, err |-> NoError,
   hasPushData |-> TRUE, queries |-> 0, aiCalls |-> 0]

\* both requests belong to one enhanced crawler / each to a crawler of its own
OneInstance == [r \in Requests |-> 1]
TwoInstances == [r \in Requests |-> IF r = "A" THEN 1 ELSE 2]

\* no request has been given to a wrapped handler
WrapperIdle ==
  /\ alwaysRun = [kind |-> "undefined", flag |-> FALSE, labels |-> {}]
  /\ telemetry = FALSE
  /\ backend = "up"
  /\ instOf = OneInstance
  /\ rq = [r \in Requests |-> NewRequest]
  /\ currentContext = EmptyContext
  /\ requestContextMap = [r \in Requests |-> "none"]

\* enhance(crawler, config), once or for two crawlers with the same config
WrapperInit(bs, insts, ars, tels, nps) ==
  /\ alwaysRun \in ars
  /\ telemetry \in tels
  /\ backend \in bs
  /\ instOf \in insts
  /\ \E np \in nps : rq = [r \in Requests |-> [NewRequest EXCEPT !.hasPushData = r \notin np]]
  /\ currentContext = EmptyContext
  /\ requestContextMap = [r \in Requests |-> "none"]

\* shouldRunHandler(alwaysRun, label)
shouldRunHandlerBug(ar, label) ==
  IF ar.kind = "undefined" \/ (ar.kind = "boolean" /\ ~ar.flag) THEN FALSE
  ELSE IF ar.kind = "boolean" THEN TRUE
  ELSE label \in ar.labels
shouldRunHandler(ar, label) ==
  IF ar.kind = "undefined" \/ (ar.kind = "boolean" /\ ~ar.flag) THEN FALSE
  ELSE IF ar.kind = "boolean" THEN TRUE
  ELSE (IF label = NoLabel THEN "default" ELSE label) \in ar.labels

\* aiResult.known && aiResult.data && !runHandler
ShouldSkipBug(ai, run) == ai.known /\ HasData(ai) /\ run
ShouldSkip(ai, run) == ai.known /\ HasData(ai) /\ ~run

\* const shouldLearn = !usedAIData && !aiResult.known
ShouldLearnBug(q) == ~q.usedAIData
ShouldLearn(q) == ~q.usedAIData /\ ~q.ai.known

\* asyncContext.getStore() in the asynchronous extent of request r
getStoreBug(r) == [rq[r].store EXCEPT !.url = currentContext.url]
getStore(r) == rq[r].store

\* requestContextMap.get(context) || url
LearnUrl(r) == IF requestContextMap[r] # "none" THEN requestContextMap[r] ELSE UrlOf(r)

\* the error the catch block re-throws, whatever its telemetry collection did
RethrownBug(err, tel) == IF tel = "throws" THEN "telemetry" ELSE err
Rethrown(err, tel) == err

\* originalPushData.call(context, data) / dataset.pushData(data)
Forward(q, d, src) == [q EXCEPT !.sink = Append(@, [data |-> d, src |-> src])]
\* if (originalPushData) await originalPushData.call(context, aiResult.data)
Emit(q, d, src) == IF q.hasPushData THEN Forward(q, d, src) ELSE q
\* client.learn(url, item) is called; makeRequest attaches the scrape context
LearnBug(q, u, d, via) ==
  Forward([q EXCEPT !.learned = Append(@, [url |-> u, item |-> d, ctx |-> currentContext])], d, via)
Learn(q, u, d, via) ==
  [q EXCEPT !.learned = Append(@, [url |-> u, item |-> d, ctx |-> currentContext]),
            !.push = [via |-> via, item |-> d]]

\* the wrapped handler is called for request r: setScrapeContext, client.query(url)
wrappedHandler(r, l) ==
  /\ rq[r].st = "new"
  /\ rq' = [rq EXCEPT ![r].st = "querying", ![r].label = l, ![r].queries = @ + 1]
  /\ currentContext' = [inst |-> instOf[r], label |-> l, url |-> UrlOf(r)]
  /\ UNCHANGED <<alwaysRun, telemetry, backend, instOf, requestContextMap>>

\* catch (err) { telemetry; throw err } finally { clearScrapeContext() }
Fail(r, e) ==
  /\ \E tel \in (IF telemetry THEN TelemetryOutcomes ELSE {"ok"}) :
       rq' = [rq EXCEPT ![r].st = "failed", ![r].err = Rethrown(e, tel),
                        ![r].store = NoStore, ![r].push = NoPush]
  /\ currentContext' = EmptyContext
  /\ UNCHANGED <<alwaysRun, telemetry, backend, instOf, requestContextMap>>

\* client.query(url) settles: skip with the AI data, or set up the
\* interception and the async context and call the original handler
QueryReturns(r, o) ==
  /\ rq[r].st = "querying"
  /\ IF o.st = "rejected"
       THEN Fail(r, o.err)
       ELSE IF ShouldSkip(o.val, shouldRunHandler(alwaysRun, rq[r].label))
         THEN /\ rq' = [rq EXCEPT ![r] = Emit([@ EXCEPT !.st = "skipping", !.ai = o.val],
                                              o.val.data, "skip")]
              /\ UNCHANGED <<alwaysRun, telemetry, backend, instOf, currentContext, requestContextMap>>
         ELSE /\ rq' = [rq EXCEPT ![r].st = "running",
                                  ![r].ai = o.val,
                                  ![r].ran = @ + 1,
                                  ![r].intercepted = rq[r].hasPushData /\ learning,
                                  ![r].store = [set |-> TRUE, url |-> UrlOf(r),
                                                learning |-> learning, aiKnown |-> o.val.known]]
              /\ requestContextMap' = [requestContextMap EXCEPT ![r] = UrlOf(r)]
              /\ UNCHANGED <<alwaysRun, telemetry, backend, instOf, currentContext>>

\* the skip path's await of the original sink returns: return; finally
SkipReturns(r) ==
  /\ rq[r].st = "skipping"
  /\ rq' = [rq EXCEPT ![r].st = "done"]
  /\ currentContext' = EmptyContext
  /\ UNCHANGED <<alwaysRun, telemetry, backend, instOf, requestContextMap>>

\* the handler calls context.pushData(item)
context_pushData(r) ==
  /\ rq[r].st = "running" /\ rq[r].push = NoPush
  /\ rq[r].hasPushData
  /\ rq' = [rq EXCEPT ![r] =
             LET q == [rq[r] EXCEPT !.pushes = @ + 1]
                 d == ItemOf(q.pushes)
             IN IF q.intercepted /\ ShouldLearn(q)
                  THEN Learn(q, LearnUrl(r), d, "context")
                  ELSE Forward(q, d, "context")]
  /\ UNCHANGED <<alwaysRun, telemetry, backend, instOf, currentContext, requestContextMap>>

\* the handler calls pushData(item, dataset)
pushData(r) ==
  /\ rq[r].st = "running" /\ rq[r].push = NoPush
  /\ rq' = [rq EXCEPT ![r] =
             LET q == [rq[r] EXCEPT !.pushes = @ + 1]
                 d == ItemOf(q.pushes)
                 ctx == getStore(r)
             IN IF ctx.set /\ ctx.learning /\ ~ctx.aiKnown
                  THEN Learn(q, ctx.url, d, "dataset")
                  ELSE Forward(q, d, "dataset")]
  /\ UNCHANGED <<alwaysRun, telemetry, backend, instOf, currentContext, requestContextMap>>

\* the client.learn call of a push settles: the item goes on to the real sink
LearnReturns(r, o) ==
  /\ rq[r].st = "running" /\ rq[r].push # NoPush
  /\ IF o.st = "rejected"
       THEN Fail(r, o.err)
       ELSE /\ rq' = [rq EXCEPT ![r] = Forward([@ EXCEPT !.push = NoPush],
                                               rq[r].push.item, rq[r].push.via)]
            /\ UNCHANGED <<alwaysRun, telemetry, backend, instOf, currentContext, requestContextMap>>

\* aiResult.known && aiResult.data && originalPushData
UsesAIDataBug(q) == q.hasPushData
UsesAIData(q) == q.ai.known /\ HasData(q.ai) /\ q.hasPushData

\* the handler calls context.ai.useAIData()
useAIData(r) ==
  /\ rq[r].st = "running" /\ rq[r].push = NoPush
  /\ rq' = [rq EXCEPT ![r] =
             LET q == [rq[r] EXCEPT !.aiCalls = @ + 1]
             IN IF UsesAIData(q)
                  THEN Forward([q EXCEPT !.usedAIData = TRUE], q.ai.data, "ai")
                  ELSE q]
  /\ UNCHANGED <<alwaysRun, telemetry, backend, instOf, currentContext, requestContextMap>>

\* the original handler returns: requestContextMap.delete, telemetry, finally
HandlerReturns(r) ==
  /\ rq[r].st = "running" /\ rq[r].push = NoPush
  /\ rq' = [rq EXCEPT ![r].st = "done", ![r].store = NoStore]
  /\ requestContextMap' = [requestContextMap EXCEPT ![r] = "none"]
  /\ currentContext' = EmptyContext
  /\ UNCHANGED <<alwaysRun, telemetry, backend, instOf>>

\* the original handler throws
HandlerThrows(r, e) ==
  /\ rq[r].st = "running" /\ rq[r].push = NoPush
  /\ Fail(r, e)

\* context.pushData, pushData and useAIData calls made so far, over all requests
Pushes == rq["A"].pushes + rq["B"].pushes + rq["A"].aiCalls + rq["B"].aiCalls

others == <<bvars, cvars, kvars, now, mvars>>
WrapperNext ==
  \/ \E r \in Requests, l \in Labels : wrappedHandler(r, l) /\ UNCHANGED others
  \/ \E r \in Requests : \E o \in ClientQueryOutcomes(backend) : QueryReturns(r, o) /\ UNCHANGED others
  \/ \E r \in Requests : SkipReturns(r) /\ UNCHANGED others
  \/ \E r \in Requests : Pushes < MaxPush /\ context_pushData(r) /\ UNCHANGED others
  \/ \E r \in Requests : Pushes < MaxPush /\ pushData(r) /\ UNCHANGED others
  \/ \E r \in Requests : \E o \in ClientLearnOutcomes(backend) : LearnReturns(r, o) /\ UNCHANGED others
  \/ \E r \in Requests : Pushes < MaxPush /\ useAIData(r) /\ UNCHANGED others
  \/ \E r \in Requests : HandlerReturns(r) /\ UNCHANGED others
  \/ \E r \in Requests, e \in HandlerErrors : HandlerThrows(r, e) /\ UNCHANGED others

WrapperSpecInit == BatcherInit({MaxBatch}) /\ BreakerInit({DEFAULT_CONFIG}) /\ ClientInit(BOOLEAN) /\ now = StartTime /\ WrapperInit({"up"}, {OneInstance}, AlwaysRunValues, {FALSE}, {{}}) /\ MockIdle
WrapperSpec == WrapperSpecInit /\ [][WrapperNext]_vars

\* alwaysRun: "listing", telemetry enabled or not
AlwaysRunListing == {ar \in AlwaysRunValues : ar.kind = "string"}
TelemetryInit == BatcherInit({MaxBatch}) /\ BreakerInit({DEFAULT_CONFIG}) /\ ClientInit(BOOLEAN) /\ now = StartTime /\ WrapperInit({"up"}, {OneInstance}, AlwaysRunListing, BOOLEAN, {{}}) /\ MockIdle
TelemetrySpec == TelemetryInit /\ [][WrapperNext]_vars

\* two enhanced crawlers, one request each
InstancesInit == BatcherInit({MaxBatch}) /\ BreakerInit({DEFAULT_CONFIG}) /\ ClientInit(BOOLEAN) /\ now = StartTime /\ WrapperInit({"up"}, {TwoInstances}, AlwaysRunListing, {FALSE}, {{}}) /\ MockIdle
InstancesSpec == InstancesInit /\ [][WrapperNext]_vars

\* request B's context may have no pushData (it is optional in RequestHandlerContext)
LifecycleInit == BatcherInit({MaxBatch}) /\ BreakerInit({DEFAULT_CONFIG}) /\ ClientInit(BOOLEAN) /\ now = StartTime /\ WrapperInit({"up"}, {OneInstance}, AlwaysRunListing, {FALSE}, {{}, {"B"}}) /\ MockIdle
LifecycleSpec == LifecycleInit /\ [][WrapperNext]_vars

\* the knowledge service is unreachable for the whole run; every call that is
\* awaited settles and the handler ends
DegradedInit == BatcherInit({MaxBatch}) /\ BreakerInit({DEFAULT_CONFIG}) /\ ClientInit(BOOLEAN) /\ now = StartTime /\ WrapperInit({"down"}, {OneInstance}, AlwaysRunValues, BOOLEAN, {{}}) /\ MockIdle
\* no query result is known, so the skip path is never taken
DegradedNext ==
  \/ \E r \in Requests, l \in Labels : wrappedHandler(r, l) /\ UNCHANGED others
  \/ \E r \in Requests : \E o \in ClientQueryOutcomes(backend) : QueryReturns(r, o) /\ UNCHANGED others
  \/ \E r \in Requests : Pushes < MaxPush /\ context_pushData(r) /\ UNCHANGED others
  \/ \E r \in Requests : Pushes < MaxPush /\ pushData(r) /\ UNCHANGED others
  \/ \E r \in Requests : \E o \in ClientLearnOutcomes(backend) : LearnReturns(r, o) /\ UNCHANGED others
  \/ \E r \in Requests : Pushes < MaxPush /\ useAIData(r) /\ UNCHANGED others
  \/ \E r \in Requests : HandlerReturns(r) /\ UNCHANGED others
  \/ \E r \in Requests, e \in HandlerErrors : HandlerThrows(r, e) /\ UNCHANGED others
\* every request given to the crawler is started, and every awaited call and
\* every handler settles
DegradedSpec == DegradedInit /\ [][DegradedNext]_vars /\ WF_vars(DegradedNext)

\* a mock of its own, with or without initial knowledge and simulated failures
MockSpecInit == BatcherInit({MaxBatch}) /\ BreakerInit({DEFAULT_CONFIG}) /\ ClientInit({TRUE}) /\ now = StartTime /\ WrapperIdle /\ MockInit
MockNext ==
  \/ \E u \in URLs : made < MaxMockCalls /\ Mock_query(u) /\ UNCHANGED <<bvars, cvars, now, wvars>>
  \/ \E us \in BulkInputs : made < MaxMockCalls /\ Mock_queryBulk(us) /\ UNCHANGED <<bvars, cvars, now, wvars>>
  \/ \E u \in URLs, d \in MockData : made < MaxMockCalls /\ Mock_learn(u, d) /\ UNCHANGED <<bvars, cvars, now, wvars>>
  \/ made < MaxMockCalls /\ Mock_stats /\ UNCHANGED <<bvars, cvars, now, wvars>>
  \/ \E u \in URLs, d \in MockData : made < MaxMockCalls /\ Mock_seed(u, d) /\ UNCHANGED <<bvars, cvars, now, wvars>>
  \/ made < MaxMockCalls /\ Mock_clear /\ UNCHANGED <<bvars, cvars, now, wvars>>
MockSpec == MockSpecInit /\ [][MockNext]_vars

\* the client's batcher and breaker have their default configuration; the
\* batcher's maxSize is scaled down to 2
ClientSpecInit == BatcherInit({2}) /\ BreakerInit({DEFAULT_CONFIG}) /\ ClientInit(BOOLEAN) /\ now = StartTime /\ WrapperIdle /\ MockIdle
ClientNext ==
  \/ \E u \in AlternateUrl(Len(reqs) + 1) : made < MaxAsk /\ Client_query(u) /\ UNCHANGED <<wvars, mvars>>
  \/ \E us \in BulkInputs : made < MaxAsk /\ Client_queryBulk(us) /\ UNCHANGED <<wvars, mvars>>
  \/ made < MaxAsk /\ Client_learn("u1") /\ UNCHANGED <<wvars, mvars>>
  \/ made < MaxAsk /\ Client_stats /\ UNCHANGED <<wvars, mvars>>
  \/ \E i \in 1..Len(sent) : \E resp \in ResponsesFor(sent[i].op) : RequestResolves(i, resp) /\ UNCHANGED <<wvars, mvars>>
  \/ \E i \in 1..Len(sent) : RequestRejects(i, "e1") /\ UNCHANGED <<wvars, mvars>>
  \/ \E c \in 1..Len(calls), resp \in QueryResponses : BatchQueryResolves(c, resp) /\ UNCHANGED <<wvars, mvars>>
  \/ \E c \in 1..Len(calls) : BatchQueryRejects(c, "e1") /\ UNCHANGED <<wvars, mvars>>
  \/ Client_TimerFires /\ UNCHANGED <<wvars, mvars>>
  \/ clearBatch /\ UNCHANGED <<wvars, mvars>>
  \/ now < StartTime + MaxClientTime /\ Tick /\ UNCHANGED <<wvars, mvars>>
ClientSpec == ClientSpecInit /\ [][ClientNext]_vars

BatcherSpecInit == BatcherInit(1..MaxBatch) /\ BreakerInit({DEFAULT_CONFIG}) /\ now = StartTime /\ ClientInit({TRUE}) /\ WrapperIdle /\ MockIdle
BatcherNext ==
  \/ \E u \in AlternateUrl(Len(reqs) + 1) : Len(reqs) < MaxReq /\ query(u) /\ UNCHANGED <<cvars, kvars, wvars, mvars>>
  \/ TimerFires /\ UNCHANGED <<cvars, kvars, wvars, mvars>>
  \/ \E c \in 1..Len(calls) : ExecutorResolves(c, UnknownMap) /\ UNCHANGED <<cvars, kvars, wvars, mvars>>
  \/ \E c \in 1..Len(calls) : ExecutorRejects(c, "e1") /\ UNCHANGED <<cvars, kvars, wvars, mvars>>
  \/ clear /\ UNCHANGED <<cvars, kvars, wvars, mvars>>
  \/ TimePasses /\ UNCHANGED now /\ UNCHANGED <<cvars, kvars, wvars, mvars>>
BatcherSpec == BatcherSpecInit /\ [][BatcherNext]_vars

\* ordering and settlement runs: as the scheduling runs, with fewer queries
BatcherOrderNext ==
  \/ \E u \in AlternateUrl(Len(reqs) + 1) : Len(reqs) < MaxOrderReq /\ query(u) /\ UNCHANGED <<cvars, kvars, wvars, mvars>>
  \/ TimerFires /\ UNCHANGED <<cvars, kvars, wvars, mvars>>
  \/ \E c \in 1..Len(calls) : ExecutorResolves(c, UnknownMap) /\ UNCHANGED <<cvars, kvars, wvars, mvars>>
  \/ \E c \in 1..Len(calls) : ExecutorRejects(c, "e1") /\ UNCHANGED <<cvars, kvars, wvars, mvars>>
  \/ clear /\ UNCHANGED <<cvars, kvars, wvars, mvars>>
  \/ TimePasses /\ UNCHANGED now /\ UNCHANGED <<cvars, kvars, wvars, mvars>>
BatcherOrderSpec == BatcherSpecInit /\ [][BatcherOrderNext]_vars

\* liveness runs on a live event loop: the clock advances, a due timer's
\* callback runs, and every executor call settles
BatcherLiveNext ==
  \/ \E u \in AlternateUrl(Len(reqs) + 1) : Len(reqs) < MaxLiveReq /\ query(u) /\ UNCHANGED <<cvars, kvars, wvars, mvars>>
  \/ TimerFires /\ UNCHANGED <<cvars, kvars, wvars, mvars>>
  \/ \E c \in 1..Len(calls) : ExecutorResolves(c, UnknownMap) /\ UNCHANGED <<cvars, kvars, wvars, mvars>>
  \/ \E c \in 1..Len(calls) : ExecutorRejects(c, "e1") /\ UNCHANGED <<cvars, kvars, wvars, mvars>>
  \/ clear /\ UNCHANGED <<cvars, kvars, wvars, mvars>>
  \/ TimePasses /\ UNCHANGED now /\ UNCHANGED <<cvars, kvars, wvars, mvars>>
BatcherLiveSpec ==
  /\ BatcherSpecInit
  /\ [][BatcherLiveNext]_vars
  /\ WF_vars(TimePasses /\ UNCHANGED <<now, cvars, kvars, wvars, mvars>>)
  /\ WF_vars(TimerFires /\ UNCHANGED <<cvars, kvars, wvars, mvars>>)
  /\ \A c \in 1..MaxLiveReq :
       WF_vars(/\ c <= Len(calls)
               /\ \/ ExecutorResolves(c, UnknownMap)
                  \/ ExecutorRejects(c, "e1")
               /\ UNCHANGED <<cvars, kvars, wvars, mvars>>)

\* result-data runs: any URL per query, any Map or error from the executor
BatcherDataInit == BatcherInit(1..MaxBatch) /\ BreakerInit({DEFAULT_CONFIG}) /\ now = StartTime /\ ClientInit({TRUE}) /\ WrapperIdle /\ MockIdle
BatcherDataNext ==
  \/ \E u \in URLs : Len(reqs) < MaxDataReq /\ query(u) /\ UNCHANGED <<cvars, kvars, wvars, mvars>>
  \/ TimerFires /\ UNCHANGED <<cvars, kvars, wvars, mvars>>
  \/ \E c \in 1..Len(calls), m \in ResultMaps : ExecutorResolves(c, m) /\ UNCHANGED <<cvars, kvars, wvars, mvars>>
  \/ \E c \in 1..Len(calls), e \in Errors : ExecutorRejects(c, e) /\ UNCHANGED <<cvars, kvars, wvars, mvars>>
  \/ clear /\ UNCHANGED <<cvars, kvars, wvars, mvars>>
  \/ TimePasses /\ UNCHANGED now /\ UNCHANGED <<cvars, kvars, wvars, mvars>>
BatcherDataSpec == BatcherDataInit /\ [][BatcherDataNext]_vars

\* a breaker alone, under any configuration
BreakerSpecInit == BatcherInit({MaxBatch}) /\ BreakerInit(Configs) /\ now = StartTime /\ ClientInit({TRUE}) /\ WrapperIdle /\ MockIdle
BreakerSpec == BreakerSpecInit /\ [][BreakerNext]_vars

\* ==================================================================== claims

InFlight == {c \in 1..Len(calls) : calls[c].st = "pending"}
BatchOf(c) == Range(calls[c].batch)
Last(q) == q[Len(q)]
Cleared(r) == reqs[r].out = Resolved(Fallback)
\* the executor calls that carry an arrival of the current window
WindowCalls == {c \in 1..Len(calls) : BatchOf(c) \cap Range(window.members) # {}}
NoneCleared == \A r \in Range(window.members) : ~Cleared(r)

\* C1: the N < maxSize queries that arrive within one maxWait window (opened by
\* the first unflushed item, none of them cleared) go to the executor in exactly
\* one call, whose argument is exactly their URLs in arrival order.
C1_OneCallPerWindow ==
  (/\ window.members # <<>>
   /\ Len(window.members) < maxSize
   /\ ~window.late
   /\ NoneCleared)
  => /\ Cardinality(WindowCalls) <= 1
     /\ \A c \in WindowCalls :
          /\ calls[c].batch = window.members
          /\ calls[c].urls = [i \in 1..Len(window.members) |-> reqs[window.members[i]].url]
     /\ \A r \in Range(window.members) :
          r \in Range(queue) \/ \E c \in 1..Len(calls) : r \in BatchOf(c)

\* C2: no executor call carries more than maxSize URLs; the enqueue that makes
\* the queue reach maxSize dispatches a chunk of exactly maxSize in the same
\* step; when N >= maxSize queries arrive within one maxWait window, only the
\* chunk holding the last of them may carry fewer than maxSize.
C2_ChunksOfMaxSize ==
  /\ \A c \in 1..Len(calls) : Len(calls[c].batch) <= maxSize
  /\ \A c \in 1..Len(calls) : calls[c].by = "size" => Len(calls[c].batch) = maxSize
  /\ Len(queue) < maxSize
  /\ (Len(window.members) >= maxSize /\ NoneCleared)
       => \A c \in WindowCalls :
            Len(calls[c].batch) < maxSize => Last(window.members) \in BatchOf(c)

\* C3 as stated: at most one executor call of the batcher is outstanding.
C3_OneFlushInFlight == Cardinality(InFlight) <= 1

\* C3 as amended: flushes may overlap, but executor calls never share a
\* caller: the batches of all executor calls are pairwise disjoint, and no
\* caller of a dispatched batch is still in the queue.
C3_BatchesDisjoint ==
  /\ \A c, d \in 1..Len(calls) : c # d => BatchOf(c) \cap BatchOf(d) = {}
  /\ \A c \in 1..Len(calls) : BatchOf(c) \cap Range(queue) = {}

C3_TwoFlushesInFlight ==
  \E c, d \in InFlight : c # d /\ calls[c].by = "timer" /\ calls[d].by = "size"

\* C4: at most one flush timer is pending at any time.
C4_OneTimerPending == Len(timers) <= 1

\* C5: when an executor call succeeds, every caller of its batch is resolved
\* with what the returned Map holds for the caller's own URL, or with
\* {known:false} when the Map has no entry for that URL.
C5_OwnResult ==
  \A c \in 1..Len(calls) :
    calls[c].st = "ok" =>
      \A r \in BatchOf(c) :
        /\ reqs[r].out.st = "resolved"
        /\ reqs[r].out.val = IF calls[c].res[reqs[r].url] = Missing
                               THEN NoVal
                               ELSE calls[c].res[reqs[r].url]

C5_MixedBatchResolved ==
  \E c \in 1..Len(calls) :
    /\ calls[c].st = "ok"
    /\ calls[c].urls = <<"u1", "u2">>
    /\ calls[c].res["u1"] = Missing
    /\ calls[c].res["u2"] = KnownVal
    /\ reqs[calls[c].batch[1]].out = Resolved(NoVal)
    /\ reqs[calls[c].batch[2]].out = Resolved(KnownVal)

\* C6: when an executor call fails, every caller of its batch, and no other
\* caller, is rejected with that error; no item of the batch goes back to the
\* queue or into another executor call.
C6_BatchRejected ==
  /\ \A c \in 1..Len(calls) :
       calls[c].st = "error" =>
         \A r \in BatchOf(c) :
           /\ reqs[r].out = Rejected(calls[c].err)
           /\ r \notin Range(queue)
           /\ \A d \in 1..Len(calls) : d # c => r \notin BatchOf(d)
  /\ \A r \in 1..Len(reqs) :
       reqs[r].out.st = "rejected" =>
         \E c \in 1..Len(calls) :
           r \in BatchOf(c) /\ calls[c].st = "error" /\ calls[c].err = reqs[r].out.err

C6_OneBatchFailedOtherNot ==
  \E c, d \in 1..Len(calls) :
    /\ calls[c].st = "error" /\ calls[c].err = "e2"
    /\ calls[d].st = "ok"
    /\ \A r \in BatchOf(c) : reqs[r].out = Rejected("e2")
    /\ \A r \in BatchOf(d) : reqs[r].out.st = "resolved"

\* C7: clear() cancels the pending flush timer and resolves every queued
\* caller with {known:false, fallback:true}; afterwards the queue is empty
\* and no flush timer of the batcher is pending.
C7_ClearLeavesNothingPending ==
  [][clear =>
       /\ queue' = <<>>
       /\ flushTimeout' = 0
       /\ timers' = <<>>
       /\ \A r \in 1..Len(reqs) :
            reqs'[r].out = IF r \in Range(queue) THEN Resolved(Fallback) ELSE reqs[r].out
    ]_vars

\* C8: starting from Closed with failures = 0, fewer than failureThreshold
\* recordFailure() calls leave the breaker Closed with isOpen() = false; right
\* after the failureThreshold-th consecutive recordFailure() the state is Open
\* and isOpen() returns true.
C8_OpensAtThreshold ==
  streak.fromClosed =>
    /\ streak.n < cfg.failureThreshold =>
         /\ state = "closed"
         /\ ~isOpenReturn
         /\ (op = "isOpen" => ret = FALSE)
    /\ (streak.n = cfg.failureThreshold /\ op = "recordFailure") =>
         /\ state = "open"
         /\ now - lastFailureTime < cfg.resetTimeout
         /\ isOpenReturn

C8_JustOpened ==
  /\ cfg.failureThreshold = 3
  /\ streak = [n |-> 3, fromClosed |-> TRUE, forgave |-> 0]
  /\ op = "recordFailure"
  /\ state = "open"

\* C9: in Closed, failures counts the recordFailure() calls made since the
\* last recordSuccess() (which resets it to 0), so the breaker goes from
\* Closed to Open only on the failureThreshold-th failure since that success.
C9_SuccessResetsFailures ==
  /\ [](state = "closed" => failures = streak.n /\ failures < cfg.failureThreshold)
  /\ [][recordSuccess /\ state = "closed" => failures' = 0 /\ state' = "closed"]_vars
  /\ [][state = "closed" /\ state' = "open" => streak'.n = cfg.failureThreshold]_vars

\* fail, fail, success, fail, fail with failureThreshold = 3: still Closed
C9_FailFailSuccessFailFail ==
  /\ cfg.failureThreshold = 3
  /\ streak = [n |-> 2, fromClosed |-> TRUE, forgave |-> 2]
  /\ op = "recordFailure"
  /\ state = "closed"
  /\ failures = 2

\* C10: in Open, isOpen() returns true and stays Open while
\* now - lastFailureTime < resetTimeout; called once that time has elapsed it
\* moves to Half-Open, zeroes successes and returns false; in Half-Open it
\* returns false and stays Half-Open.
C10_IsOpenTransitions ==
  [][isOpen =>
       /\ (state = "open" /\ now - lastFailureTime < cfg.resetTimeout)
            => (ret' = TRUE /\ state' = "open" /\ successes' = successes)
       /\ (state = "open" /\ now - lastFailureTime >= cfg.resetTimeout)
            => (ret' = FALSE /\ state' = "half-open" /\ successes' = 0)
       /\ state = "half-open"
            => (ret' = FALSE /\ state' = "half-open")
    ]_vars

\* Half-Open has just been entered by isOpen(), exactly resetTimeout after the
\* last failure, on a breaker that has already reopened once
C10_EnteredHalfOpen ==
  /\ state = "half-open"
  /\ op = "isOpen"
  /\ ret = FALSE
  /\ successes = 0
  /\ now - lastFailureTime = cfg.resetTimeout
  /\ failures > cfg.failureThreshold

\* C11: in Half-Open, successes counts the recordSuccess() calls of the current
\* trial and stays below successThreshold; a recordSuccess() that brings it to
\* successThreshold closes the breaker with failures, successes and
\* lastFailureTime all zero; any earlier one adds one to successes and leaves
\* the breaker Half-Open.
C11_HalfOpenSuccess ==
  /\ [](state = "half-open" => successes < cfg.successThreshold)
  /\ [][(recordSuccess /\ state = "half-open") =>
          IF successes + 1 = cfg.successThreshold
            THEN /\ state' = "closed"
                 /\ failures' = 0
                 /\ successes' = 0
                 /\ lastFailureTime' = 0
            ELSE /\ state' = "half-open"
                 /\ successes' = successes + 1
                 /\ successes' < cfg.successThreshold
                 /\ UNCHANGED <<failures, lastFailureTime>>
       ]_vars

\* the second success of a trial has just closed a breaker whose
\* successThreshold is 2
C11_ClosedBySecondSuccess ==
  /\ cfg.successThreshold = 2
  /\ op = "recordSuccess"
  /\ before = "half-open"
  /\ state = "closed"
  /\ failures = 0
  /\ successes = 0
  /\ lastFailureTime = 0

\* C12: in Half-Open, one recordFailure() moves the breaker to Open and
\* stamps lastFailureTime with the current time; every Half-Open period starts
\* with successes = 0 and successes grows only by the recordSuccess() calls of
\* that period, so the successes of an earlier period never count.
C12_HalfOpenFailure ==
  /\ [][(recordFailure /\ state = "half-open") =>
          (state' = "open" /\ lastFailureTime' = now)]_vars
  /\ [][(state # "half-open" /\ state' = "half-open") => successes' = 0]_vars
  /\ [][(state = "half-open" /\ state' = "half-open" /\ successes' # successes) =>
          (recordSuccess /\ successes' = successes + 1)]_vars

\* a trial that had one success out of the two it needed has just failed
C12_TrialFailedAfterOneSuccess ==
  /\ cfg.successThreshold = 2
  /\ op = "recordFailure"
  /\ before = "half-open"
  /\ state = "open"
  /\ successes = 1
  /\ lastFailureTime = now

\* C13: in every reachable state failures is non-zero only while Closed and
\* successes is non-zero only while Half-Open.
C13_CountersZeroOutside ==
  /\ (failures # 0 => state = "closed")
  /\ (successes # 0 => state = "half-open")

\* C14: while the breaker is Open and resetTimeout has not elapsed, no step
\* issues a backend request: no executor call of the batcher starts and no
\* queryBulk, learn or stats request is sent.
C14_NoRequestWhileOpen ==
  [][(state = "open" /\ ~ResetElapsed(now, lastFailureTime)) =>
       (Len(calls') = Len(calls) /\ Len(sent') <= Len(sent))]_vars

\* C15: client.query(url) never rejects: a call made while isOpen() is true
\* returns {known:false, fallback:true} and leaves the batcher untouched; a
\* call whose batcher promise is rejected returns {known:false, fallback:true}.
C15_QueryNeverRejects ==
  /\ [](/\ Len(answers) = Len(reqs)
        /\ \A r \in 1..Len(answers) :
             /\ answers[r].st # "rejected"
             /\ reqs[r].out.st = "rejected" => answers[r] = Resolved(Fallback)
             /\ reqs[r].out.st = "resolved" => answers[r] = reqs[r].out
             /\ reqs[r].out.st = "pending" => answers[r] = Pending
        /\ lastAsk.op = "query" => lastAsk.out = Resolved(Fallback) /\ ~lastAsk.sent)
  /\ [][\A u \in URLs : (Client_query(u) /\ isOpenReturn) =>
          /\ UNCHANGED bvars
          /\ answers' = answers
          /\ lastAsk' = Ask("query", <<u>>, FALSE, Resolved(Fallback))]_vars

\* one query was answered with the fallback because its batch failed, another
\* because the circuit was open when it was made
C15_BothFallbacks ==
  /\ \E r \in 1..Len(answers) :
        reqs[r].out = Rejected("e1") /\ answers[r] = Resolved(Fallback)
  /\ lastAsk.op = "query"
  /\ state = "open"
  /\ op = "isOpen"
  /\ ret = TRUE

\* the AIResults handed to callers so far: by the batcher, by client.query, and
\* in the Map of the last queryBulk that returned
MapEntries(m) == {m[u] : u \in {w \in URLs : m[w] # Missing}}
Delivered ==
  {reqs[r].out.val : r \in {q \in 1..Len(reqs) : reqs[q].out.st = "resolved"}}
  \cup {answers[r].val : r \in {q \in 1..Len(answers) : answers[q].st = "resolved"}}
  \cup (IF lastAsk.op = "query" THEN {lastAsk.out.val} ELSE {})
  \cup (IF lastAsk.op = "queryBulk" THEN MapEntries(lastAsk.out.val) ELSE {})

\* C16: every result delivered with fallback = true has known = false.
C16_FallbackIsUnknown ==
  \A v \in Delivered : v.fallback => ~v.known

\* a caller got a known answer, another was cleared out of the queue with the
\* fallback, and a queryBulk of two urls failed
C16_KnownClearedAndBulkFallback ==
  /\ \E r \in 1..Len(answers) : answers[r] = Resolved(KnownVal)
  /\ \E r \in 1..Len(answers) :
        /\ answers[r] = Resolved(Fallback)
        /\ \A c \in 1..Len(calls) : r \notin BatchOf(c)
  /\ lastAsk = Ask("queryBulk", <<"u2", "u1">>, TRUE, Resolved(FallbackMap(<<"u2", "u1">>)))

\* C17: every executeBatchQuery call that comes back, from the batcher or from
\* queryBulk, is one recordSuccess() when it succeeded and one recordFailure()
\* when it failed, whatever the number of urls it carried; and once
\* failureThreshold failures have followed one another from Closed with no
\* success in between, the breaker is not Closed.
C17_OneSignalPerBatchCall ==
  /\ [][\A c \in 1..Len(calls) :
          /\ (calls[c].st = "pending" /\ calls'[c].st = "error") =>
               (recordFailure /\ failures' = failures + 1 /\ streak'.n = streak.n + 1)
          /\ (calls[c].st = "pending" /\ calls'[c].st = "ok") => recordSuccess]_vars
  /\ [][\A i \in 1..Len(sent) :
          (sent[i].op = "queryBulk" /\ sent' = RemoveAt(sent, i)) =>
            IF lastAsk'.out = Resolved(FallbackMap(sent[i].urls))
              THEN recordFailure /\ failures' = failures + 1 /\ streak'.n = streak.n + 1
              ELSE recordSuccess]_vars
  /\ []((streak.fromClosed /\ streak.n >= cfg.failureThreshold) => state # "closed")

\* three executeBatchQuery calls carrying 2, 1 and 2 urls (a batch flushed by
\* size, a batch flushed by the timer, a queryBulk) failed one after another
\* and the third failure has just opened the circuit
C17_ThreeFailedBatchesOpen ==
  /\ made = 4
  /\ Len(calls) = 2
  /\ calls[1].st = "error" /\ Len(calls[1].urls) = 2
  /\ calls[2].st = "error" /\ Len(calls[2].urls) = 1
  /\ lastAsk = Ask("queryBulk", <<"u2", "u1">>, TRUE, Resolved(FallbackMap(<<"u2", "u1">>)))
  /\ streak = [n |-> 3, fromClosed |-> TRUE, forgave |-> 0]
  /\ op = "recordFailure"
  /\ before = "closed"
  /\ state = "open"

\* C18: a learn() call made while learning is disabled or while isOpen() is
\* true returns {status:'rejected', learned:0}, sends no request and records
\* neither a success nor a failure on the breaker.
C18_LearnRefused ==
  [][(Client_learn("u1") /\ (~learning \/ isOpenReturn)) =>
       /\ lastAsk' = Ask("learn", <<"u1">>, FALSE, Resolved(RejectedLearn))
       /\ sent' = sent
       /\ UNCHANGED bvars
       /\ UNCHANGED <<state, failures, successes, lastFailureTime, streak>>]_vars

\* learn() has just been refused because isOpen() returned true
C18_RefusedWhileOpen ==
  /\ learning
  /\ lastAsk = Ask("learn", <<"u1">>, FALSE, Resolved(RejectedLearn))
  /\ state = "open"
  /\ op = "isOpen"
  /\ ret = TRUE
  /\ sent = <<>>

\* C19: learn() never rejects: when its request succeeds it records one
\* recordSuccess() and returns the backend's response; when its request fails
\* it records one recordFailure() and returns {status:'rejected', learned:0}.
C19_LearnNeverRejects ==
  /\ [](lastAsk.op = "learn" => lastAsk.out.st = "resolved")
  /\ [][\A i \in 1..Len(sent) : sent[i].op = "learn" =>
          /\ \A resp \in LearnResponses :
               RequestResolves(i, resp) =>
                 (lastAsk'.out = Resolved(resp) /\ recordSuccess)
          /\ RequestRejects(i, "e1") =>
               /\ lastAsk'.out = Resolved(RejectedLearn)
               /\ recordFailure
               /\ failures' = failures + 1
               /\ streak'.n = streak.n + 1]_vars

\* one learn() got the backend's response, a later one failed and returned
\* the rejected outcome
C19_AcceptedThenFailed ==
  /\ lastAsk = Ask("learn", <<"u1">>, TRUE, Resolved(RejectedLearn))
  /\ op = "recordFailure"
  /\ streak = [n |-> 1, fromClosed |-> TRUE, forgave |-> 0]
  /\ failures = 1
  /\ made = 2
  /\ sent = <<>>
  /\ reqs = <<>>

\* C20: queryBulk(urls) leaves the batcher untouched and never rejects; when
\* isOpen() is true it sends nothing, and then or when its request fails the
\* Map it returns holds {known:false, fallback:true} for every url of the
\* list; a failed request is one recordFailure().
C20_BulkNeverRejects ==
  /\ [](lastAsk.op = "queryBulk" => lastAsk.out.st = "resolved")
  /\ [][\A us \in BulkInputs : Client_queryBulk(us) =>
          /\ UNCHANGED bvars
          /\ isOpenReturn =>
               /\ sent' = sent
               /\ lastAsk'.op = "queryBulk"
               /\ \A u \in Range(us) : lastAsk'.out.val[u] = Fallback]_vars
  /\ [][\A i \in 1..Len(sent) : sent[i].op = "queryBulk" =>
          /\ RequestRejects(i, "e1") =>
               /\ UNCHANGED bvars
               /\ \A u \in Range(sent[i].urls) : lastAsk'.out.val[u] = Fallback
               /\ recordFailure
               /\ failures' = failures + 1
               /\ streak'.n = streak.n + 1
          /\ \A resp \in QueryResponses : RequestResolves(i, resp) => UNCHANGED bvars]_vars

\* a queryBulk of two urls has just failed while a query was waiting in the
\* batcher's queue
C20_BulkFailedBesideQueue ==
  /\ lastAsk = Ask("queryBulk", <<"u2", "u1">>, TRUE, Resolved(FallbackMap(<<"u2", "u1">>)))
  /\ lastAsk.out.val["u1"] = Fallback
  /\ lastAsk.out.val["u2"] = Fallback
  /\ op = "recordFailure"
  /\ failures = 1
  /\ queue = <<1>>
  /\ calls = <<>>

\* ---------------------------------------------------------------- the wrapper
\* client.query has settled for request r
Queried(r) == rq[r].st \notin {"new", "querying"}
\* the wrapped handler's promise has settled for request r
Finished(r) == rq[r].st \in {"done", "failed"}
\* alwaysRun is false or unset
AlwaysRunOff == alwaysRun.kind = "undefined" \/ (alwaysRun.kind = "boolean" /\ ~alwaysRun.flag)
\* the sink received the known data, once, and nothing else
OnlyAIData(r) == rq[r].sink = <<[data |-> rq[r].ai.data, src |-> "skip"]>>

PolicyLabel(r) == IF rq[r].label = NoLabel THEN "default" ELSE rq[r].label
\* alwaysRun is true, or a label or list of labels containing the request's
PolicyRuns(r) ==
  \/ alwaysRun.kind = "boolean" /\ alwaysRun.flag
  \/ alwaysRun.kind \in {"string", "array"} /\ PolicyLabel(r) \in alwaysRun.labels
\* the request was short-circuited: handler not run, known data emitted
Skipped(r) == rq[r].st \in {"skipping", "done"} /\ rq[r].ran = 0 /\ OnlyAIData(r)

Pushed(r) == SelectSeq(rq[r].sink, LAMBDA e : e.src \in {"context", "dataset"})

\* C23: for a request whose query result was known, no data pushed during its
\* execution, through the intercepted context sink or through the ambient
\* pushData wrapper, triggers a learn call, and every pushed item is forwarded
\* to the real sink.
C23_NoLearnWhenKnown ==
  \A r \in Requests :
    Queried(r) /\ rq[r].ai.known =>
      /\ rq[r].learned = <<>>
      /\ rq[r].push = NoPush
      /\ Len(Pushed(r)) = rq[r].pushes

\* with learning enabled, a known request ran its handler, which pushed through
\* both sinks; both items were forwarded and nothing was learned
C23_KnownPushedBothWays ==
  \E r \in Requests :
    /\ learning /\ rq[r].intercepted /\ rq[r].ai.known
    /\ {rq[r].sink[i].src : i \in 1..Len(rq[r].sink)} = {"context", "dataset"}
    /\ rq[r].learned = <<>>

\* the items of request r in a sequence of sink or learn entries
SinkItems(r, src) == {rq[r].sink[i].data : i \in {j \in 1..Len(rq[r].sink) : rq[r].sink[j].src = src}}
LearnedItems(r) == {rq[r].learned[i].item : i \in 1..Len(rq[r].learned)}
\* no item reached the sink of request r twice
ForwardedOnce(r) ==
  \A i, j \in 1..Len(rq[r].sink) : rq[r].sink[i].data = rq[r].sink[j].data => i = j
\* this step forwards an item pushed through the context sink of request r
ForwardsContextItem(r) ==
  /\ Len(rq'[r].sink) = Len(rq[r].sink) + 1
  /\ Last(rq'[r].sink).src = "context"

\* C24: for a request whose query result was not known, with learning enabled
\* every item pushed through the context sink is forwarded only by the step
\* in which its learn(url, item) call, made with that request's URL, has
\* completed, and no item is forwarded twice; with learning disabled no learn
\* call is made and every pushed item is forwarded at once.
C24_LearnThenForward ==
  /\ [](\A r \in Requests :
          Queried(r) /\ ~rq[r].ai.known =>
            /\ ForwardedOnce(r)
            /\ IF learning
                 THEN /\ \A i \in 1..Len(rq[r].learned) : rq[r].learned[i].url = UrlOf(r)
                      /\ SinkItems(r, "context") \subseteq LearnedItems(r)
                 ELSE rq[r].learned = <<>> /\ Len(Pushed(r)) = rq[r].pushes)
  /\ [][\A r \in Requests :
          ForwardsContextItem(r) /\ ~rq'[r].ai.known /\ learning =>
            /\ rq[r].push = [via |-> "context", item |-> Last(rq'[r].sink).data]
            /\ Last(rq[r].learned) = [url |-> UrlOf(r), item |-> Last(rq'[r].sink).data,
                                      ctx |-> Last(rq[r].learned).ctx]
            /\ rq'[r].push = NoPush]_vars

\* with learning enabled, a request that was not known pushed two items through
\* the context sink: both were learned with its URL and then forwarded
C24_TwoItemsLearnedAndForwarded ==
  \E r \in Requests :
    /\ learning /\ ~rq[r].ai.known
    /\ rq[r].sink = <<[data |-> "i1", src |-> "context"], [data |-> "i2", src |-> "context"]>>
    /\ Len(rq[r].learned) = 2
    /\ \A i \in 1..2 : rq[r].learned[i].url = UrlOf(r) /\ rq[r].learned[i].item = ItemOf(i)

\* C25: when wrapped requests run interleaved, every learn call triggered in a
\* request's asynchronous extent, through the ambient pushData wrapper or the
\* intercepted context sink, uses that request's URL, and is made only if
\* learning is enabled and that request's own query result was not known; the
\* scope a running request sees is its own.
C25_ScopeIsolation ==
  \A r \in Requests :
    /\ \A i \in 1..Len(rq[r].learned) : rq[r].learned[i].url = UrlOf(r)
    /\ rq[r].learned # <<>> => learning /\ ~rq[r].ai.known
    /\ rq[r].st = "running" =>
         getStore(r) = [set |-> TRUE, url |-> UrlOf(r), learning |-> learning,
                        aiKnown |-> rq[r].ai.known]

\* request A, not known, learned an item through the ambient pushData wrapper
\* with its own URL while request B, known, was running and was the request
\* that had last entered the wrapper
C25_LearnedWhileOtherRuns ==
  /\ rq["A"].st = "running" /\ ~rq["A"].ai.known
  /\ rq["B"].st = "running" /\ rq["B"].ai.known
  /\ rq["A"].push.via = "dataset"
  /\ Len(rq["A"].learned) = 1
  /\ rq["A"].learned[1].url = "u1" /\ rq["A"].learned[1].ctx.url = "u2"

\* C26: when the original handler throws, the wrapped handler rejects with
\* that same error, with or without telemetry enabled and whatever the
\* telemetry collection in the catch block does.
C26_HandlerErrorPropagates ==
  [][\A r \in Requests, e \in HandlerErrors :
       HandlerThrows(r, e) => rq'[r].st = "failed" /\ rq'[r].err = e]_vars

\* with telemetry enabled, the two handlers threw different errors and each
\* wrapped call rejected with its own
C26_BothRejected ==
  /\ telemetry
  /\ rq["A"].st = "failed" /\ rq["A"].err = "h1"
  /\ rq["B"].st = "failed" /\ rq["B"].err = "h2"

\* C27: when a wrapped request has ended, by normal return of the handler, by
\* the skip path or by an exception, its scope is discarded and its
\* request-to-URL entry has been released.
C27_CleanupOnExit ==
  \A r \in Requests :
    Finished(r) => rq[r].store = NoStore /\ requestContextMap[r] = "none"

\* C28: once the wrapped handler has returned or thrown, the context's data
\* sink is the original one again.
C28_SinkRestored ==
  \A r \in Requests : Finished(r) => ~rq[r].intercepted

\* C29: if every backend call fails for the whole run, each request given to
\* the wrapped handler terminates, the original handler is invoked exactly
\* once for it, and no error of the knowledge service is raised to the host.
C29_GracefulDegradation ==
  /\ [](\A r \in Requests :
          /\ rq[r].ran <= 1
          /\ Finished(r) => rq[r].ran = 1 /\ rq[r].err \notin Errors)
  /\ \A r \in Requests : (rq[r].st = "querying") ~> Finished(r)

\* with the backend down and learning enabled, both requests have ended: A
\* returned after its handler pushed an item whose learn call failed and which
\* was forwarded all the same, B after its handler threw
C29_BothEndedDegraded ==
  /\ backend = "down" /\ learning
  /\ rq["A"].st = "done" /\ rq["A"].ai = Fallback /\ rq["A"].ran = 1
  /\ Len(rq["A"].learned) = 1 /\ Len(rq["A"].sink) = 1
  /\ rq["B"].st = "failed" /\ rq["B"].ran = 1 /\ rq["B"].err \in HandlerErrors

\* the scrape context the wrapper of request r set for its own client
OwnContext(r) == [inst |-> instOf[r], label |-> rq[r].label, url |-> UrlOf(r)]

\* C30: with two enhanced crawlers, whatever the other instance does, the
\* scrape context attached to a backend call of one instance is the one that
\* instance set.
C30_InstancesIndependent ==
  \A r \in Requests :
    \A i \in 1..Len(rq[r].learned) : rq[r].learned[i].ctx = OwnContext(r)

\* ------------------------------------------------------------------- the mock
\* the last call on the mock was query(u) and it returned
QueryReturned(u) == lastAsk.op = "query" /\ lastAsk.urls = <<u>> /\ lastAsk.out.st = "resolved"
\* what a returned query must be, given the data d last given for its URL
RoundTrip(val, d) ==
  IF d = "none"
    THEN ~val.known /\ val.data = "none"
    ELSE val.known /\ val.data = d /\ val.confidence > 0

\* C31 (as stated): a query of a URL that was never taught returns known =
\* false with no data, a learn that returns gives status 'accepted' with
\* learned = 1, and every later query of the URL returns known = true with
\* the data most recently taught and a confidence above 0.
C31_RoundTripOfLearn ==
  /\ lastAsk.op = "learn" /\ lastAsk.out.st = "resolved" => lastAsk.out.val = Accepted
  /\ \A u \in URLs : QueryReturned(u) => RoundTrip(lastAsk.out.val, taught.ever[u])

\* C31 (amended): a learn that returns gives status 'accepted' with learned =
\* 1, and a query that returns gives, for a URL not taught since the last
\* clear(), known = false with no data, and otherwise known = true with the
\* data most recently taught and a confidence above 0.
C31_RoundTripSinceClear ==
  /\ lastAsk.op = "learn" /\ lastAsk.out.st = "resolved" => lastAsk.out.val = Accepted
  /\ \A u \in URLs : QueryReturned(u) => RoundTrip(lastAsk.out.val, taught.live[u])

\* u1 was unknown to a fresh mock, was taught twice, and the query after that
\* returned the data of the second learn
C31_SecondLearnReturned ==
  /\ mock.stats.learned = 2 /\ mock.knowledge["u2"] = "none"
  /\ taught.ever["u1"] = "d2"
  /\ QueryReturned("u1")
  /\ lastAsk.out.val = [known |-> TRUE, data |-> "d2", confidence |-> MockConfidence]

\* the wrapper itself emitted the known data of request r, once
WrapperEmitted(r) ==
  SelectSeq(rq[r].sink, LAMBDA e : e.src = "skip") = <<[data |-> rq[r].ai.data, src |-> "skip"]>>
\* the wrapper emitted nothing for request r
NothingEmitted(r) == SelectSeq(rq[r].sink, LAMBDA e : e.src = "skip") = <<>>

\* C32: every wrapped request queries the client exactly once, before any
\* other step; after that exactly one of the two has happened: the wrapper
\* emitted the known data (Skipped) or the original handler was invoked
\* exactly once (Executing), never both and never neither.
C32_Lifecycle ==
  \A r \in Requests :
    /\ rq[r].st = "new" => rq[r].queries = 0
    /\ rq[r].st # "new" => rq[r].queries = 1
    /\ ~Queried(r) => rq[r].ran = 0 /\ rq[r].sink = <<>> /\ rq[r].learned = <<>>
    /\ Queried(r) =>
         \/ rq[r].ran = 0 /\ WrapperEmitted(r)
         \/ rq[r].ran = 1 /\ NothingEmitted(r)

\* this step is a useAIData() call of request r / a push by its handler
CallsUseAIData(r) == rq'[r].aiCalls = rq[r].aiCalls + 1
CallsPush(r) == rq'[r].pushes = rq[r].pushes + 1

\* C33: a useAIData() call for a URL known with data forwards the known data
\* to the original sink once and makes no learn call, and no push made after
\* it in that request learns; a call for a URL that is not known pushes
\* nothing and leaves learning on for the later pushes.
C33_UseAIData ==
  [][\A r \in Requests :
       /\ CallsUseAIData(r) /\ rq[r].ai.known /\ HasData(rq[r].ai) =>
            /\ rq'[r].sink = Append(rq[r].sink, [data |-> rq[r].ai.data, src |-> "ai"])
            /\ rq'[r].learned = rq[r].learned /\ rq'[r].push = NoPush
       /\ CallsUseAIData(r) /\ ~rq[r].ai.known =>
            /\ rq'[r].sink = rq[r].sink /\ rq'[r].learned = rq[r].learned
            /\ ~rq'[r].usedAIData
       /\ CallsPush(r) /\ rq[r].aiCalls > 0 /\ rq[r].ai.known /\ HasData(rq[r].ai) =>
            /\ rq'[r].learned = rq[r].learned
            /\ Len(rq'[r].sink) = Len(rq[r].sink) + 1
       /\ CallsPush(r) /\ rq[r].aiCalls > 0 /\ ~rq[r].ai.known /\ learning =>
            /\ Len(rq'[r].learned) = Len(rq[r].learned) + 1
            /\ Last(rq'[r].learned).url = UrlOf(r)]_vars

\* with learning enabled, the handler of a request known with data called
\* useAIData() and then pushed an item of its own: both reached the sink and
\* nothing was learned
C33_UsedThenPushed ==
  \E r \in Requests :
    /\ learning /\ rq[r].intercepted /\ rq[r].usedAIData
    /\ rq[r].sink = <<[data |-> "d1", src |-> "ai"], [data |-> "i1", src |-> "context"]>>
    /\ rq[r].learned = <<>>

\* ------------------------------------------------------ the batcher, revisited
\* s is strictly increasing: its requests are in arrival order
Ascending(s) == \A i, j \in 1..Len(s) : i < j => s[i] < s[j]

\* C34: a query enqueued while an executor call is outstanding is not in that
\* call's batch and is not settled by that call's outcome; it goes to a later
\* executor call, and batches keep arrival order: a query enqueued earlier is
\* never dispatched in a later batch than, or behind, a query enqueued after it.
C34_LaterFlushInOrder ==
  /\ Ascending(queue)
  /\ \A c \in 1..Len(calls) :
       /\ Ascending(calls[c].batch)
       /\ BatchOf(c) \subseteq 1..Len(reqs)
       /\ \A r \in Range(queue) : \A b \in BatchOf(c) : b < r
       /\ \A d \in 1..Len(calls) :
            c < d => \A b \in BatchOf(c), e \in BatchOf(d) : b < e
  /\ \A r \in 1..Len(reqs) :
       reqs[r].out \notin {Pending, Resolved(Fallback)} =>
         \E c \in 1..Len(calls) : r \in BatchOf(c) /\ calls[c].st # "pending"

\* the first executor call is still outstanding; a query enqueued after it was
\* made went out in a second call, which has settled and resolved it, while
\* the callers of the first batch still wait
C34_SecondBatchSettledFirst ==
  /\ Len(calls) = 2
  /\ calls[1].st = "pending" /\ calls[2].st = "ok"
  /\ \A r \in BatchOf(1) : reqs[r].out = Pending
  /\ \A r \in BatchOf(2) : reqs[r].out.st = "resolved"
  /\ queue # <<>>

\* the in-flight executor calls whose batch holds request r
FlightsOf(r) == {c \in InFlight : r \in BatchOf(c)}
\* the number of places request r is in: the queue, an in-flight batch, settled
Places(r) ==
  Cardinality({i \in 1..Len(queue) : queue[i] = r})
  + Cardinality(FlightsOf(r))
  + (IF reqs[r].out # Pending THEN 1 ELSE 0)

\* C35: every enqueued query is in exactly one place, the queue, the batch of
\* one in-flight executor call, or settled, and a settled promise never
\* changes: clear() does not settle a caller whose batch is in flight and an
\* executor outcome does not settle a caller that clear() resolved.
C35_SettledOnce ==
  /\ [](\A r \in 1..Len(reqs) : Places(r) = 1)
  /\ [][\A r \in 1..Len(reqs) :
          reqs[r].out # Pending => reqs'[r].out = reqs[r].out]_vars

\* clear() resolved a caller enqueued behind a batch that is still in flight,
\* whose own callers still wait for the executor
C35_ClearedBesideFlight ==
  \E c \in InFlight, r \in 1..Len(reqs) :
    /\ reqs[r].out = Resolved(Fallback)
    /\ \A b \in BatchOf(c) : b < r /\ reqs[b].out = Pending

\* C36: on a live event loop where every executor call settles, every
\* query(url) promise is eventually resolved or rejected, and whenever the
\* queue is non-empty a flush timer is pending.
C36_EveryQuerySettles ==
  /\ [](queue # <<>> => timers # <<>>)
  /\ \A r \in 1..MaxLiveReq :
       (r <= Len(reqs)) ~> (r <= Len(reqs) /\ reqs[r].out # Pending)

\* a batch flushed by the timer has settled its callers while a later query
\* waits in the queue
C36_TimerBatchSettled ==
  /\ queue # <<>>
  /\ \E c \in 1..Len(calls) :
       /\ calls[c].by = "timer"
       /\ calls[c].st # "pending"
       /\ \A b \in BatchOf(c) : reqs[b].out # Pending

\* C37: while the state is Open, recordSuccess() and recordFailure() leave
\* state, counters and lastFailureTime unchanged, so the Open period is not
\* extended by later failures.
C37_OpenIgnoresOutcomes ==
  [][(state = "open" /\ (recordSuccess \/ recordFailure)) =>
       UNCHANGED <<state, failures, successes, lastFailureTime>>]_vars

\* C38: state = Closed implies failureCount < failureThreshold, and state in
\* {Open, Half-Open} implies failureCount >= failureThreshold; the breaker
\* returns to Closed only by reset(), called directly or by the closing
\* success of a Half-Open trial.
C38_FailureCountTracksState ==
  /\ [](/\ state = "closed" => failures < cfg.failureThreshold
        /\ state \in {"open", "half-open"} => failures >= cfg.failureThreshold)
  /\ [][(state # "closed" /\ state' = "closed") =>
          /\ reset \/ (recordSuccess /\ state = "half-open"
                         /\ SuccessesReached(successes + 1))
          /\ failures' = 0 /\ successes' = 0 /\ lastFailureTime' = 0]_vars

\* a failed Half-Open trial has reopened the circuit with one failure more
\* than the threshold
C38_ReopenedAboveThreshold ==
  /\ cfg.failureThreshold >= 2
  /\ op = "recordFailure"
  /\ before = "half-open"
  /\ state = "open"
  /\ failures = cfg.failureThreshold + 1

\* C39: when two wrapped requests are in progress at the same time, every
\* backend call made on behalf of one of them carries that request's
\* crawler and label context, never the other's and never an empty one.
C39_ContextUnderInterleaving ==
  \A r \in Requests :
    \A i \in 1..Len(rq[r].learned) :
      /\ rq[r].learned[i].ctx.inst = instOf[r]
      /\ rq[r].learned[i].ctx.label = rq[r].label

\* C40: the Map returned by queryBulk(urls) has an entry for every URL of the
\* input list on every path; on success a URL the response lists neither as
\* known nor as unknown is reported as {known:false}.
C40_BulkMapCoversInput ==
  lastAsk.op = "queryBulk" =>
    /\ lastAsk.out.st = "resolved"
    /\ \A u \in Range(lastAsk.urls) :
         /\ lastAsk.out.val[u] # Missing
         /\ (lastAsk.sent /\ lastAsk.out.val[u] \notin {Fallback, KnownVal})
              => lastAsk.out.val[u] = NoVal

====
